---- MODULE Spec2Model ----
(***************************************************************************)
(* Model of dfttk/input_sets.py: the VASP input sets of dfttk.  Each set   *)
(* class builds a settings bundle (new_config: INCAR, KPOINTS, POTCAR,     *)
(* POTCAR_FUNCTIONAL) from its class-level CONFIG template, the structure, *)
(* the flat user overrides (kwargs['user_incar_settings']) and the named   *)
(* override group (a_kwargs['settings'][G] or user_incar_settings[G]), and *)
(* hands new_config and self.kwargs on to pymatgen's DictSet.              *)
(*                                                                         *)
(* Python values are modelled as follows.                                  *)
(*   dict            a function whose domain is a set of strings           *)
(*   ordered dict    (an override group, iterated in insertion order)      *)
(*                   a sequence of <<key, value>> pairs with distinct keys *)
(*   Kpoints object  [cls |-> "Kpoints", kpts |-> ...]                     *)
(*   KPOINTS dict    [cls |-> "dict", items |-> ...]                       *)
(*   None / absent   the empty set where a value is optional ({} or {v})   *)
(*   float           a string holding its literal ("1e-7")                 *)
(*   an exception    a result [status |-> "<exception class>"] that holds  *)
(*                   no config                                             *)
(***************************************************************************)
EXTENDS Integers, Sequences, FiniteSets, TLC

VARIABLES CONFIG, call, pc, result, again

vars == <<CONFIG, call, pc, result, again>>

(***************************************************************************)
(* Bounds of the model.                                                    *)
(***************************************************************************)
\* sites of a structure
MaxSites == 2
\* keys of user_incar_settings
MaxUis == 1
\* entries of the override group under a_kwargs['settings']
MaxGroup == 2

\* sites of a structure handed to the classifier on its own
MaxSpecies == 2

(***************************************************************************)
(* Python dict operations.                                                 *)
(***************************************************************************)
EmptyDict == [k \in {} |-> {}]

\* d.update(u)
Update(d, u) ==
    [k \in DOMAIN d \cup DOMAIN u |-> IF k \in DOMAIN u THEN u[k] ELSE d[k]]

\* d.pop(k, None) / the guarded "if k in d: d.pop(k)"
Pop(d, k) == [x \in DOMAIN d \ {k} |-> d[x]]

\* d.get(k, None), with None as the empty set
Get(d, k) == IF k \in DOMAIN d THEN {d[k]} ELSE {}

\* Python truthiness of an optional dict: None and the empty dict are falsy
Truthy(o) == o # {} /\ \A g \in o : DOMAIN g # {}

\* a or b, for optional dicts
Or(a, b) == IF Truthy(a) THEN a ELSE b

(***************************************************************************)
(* Composition classifier.                                                 *)
(***************************************************************************)
magnetic_elements == (23..28) \cup (44..46) \cup (58..71) \cup (91..118)

\* mutant: the lanthanide range is missing
magnetic_check_NoLanthanides(structure) ==
    \E i \in 1..Len(structure) :
        structure[i] \in (23..28) \cup (44..46) \cup (91..118)

magnetic_check(structure) ==
    \E i \in 1..Len(structure) : structure[i] \in magnetic_elements

metal_elements ==
    (3..4) \cup (11..13) \cup (19..31) \cup (37..50) \cup (55..85) \cup (87..118)

\* mutant: any(...) as the docstring words it, where the code has all(...)
metal_check_Any(structure) ==
    \E i \in 1..Len(structure) : structure[i] \in metal_elements

metal_check(structure) ==
    \A i \in 1..Len(structure) : structure[i] \in metal_elements

(***************************************************************************)
(* The base template: pymatgen's MPRelaxSet.yaml as _load_yaml_config      *)
(* returns it, a fresh mapping at every call.  The LDAU keys, which no     *)
(* code of input_sets.py reads or writes, are left out, and POTCAR holds   *)
(* a few representative elements.                                          *)
(***************************************************************************)
MPRelaxSet ==
    [INCAR |-> [ALGO |-> "FAST", EDIFF_PER_ATOM |-> "5e-5", ENCUT |-> 520,
                IBRION |-> 2, ISIF |-> 3, ISMEAR |-> -5, ISPIN |-> 2,
                LASPH |-> TRUE, LORBIT |-> 11, LREAL |-> "AUTO",
                LWAVE |-> FALSE, MAGMOM |-> "MPRelaxSet", NELM |-> 100,
                NSW |-> 99, PREC |-> "Accurate", SIGMA |-> "0.05"],
     KPOINTS |-> [reciprocal_density |-> 64],
     POTCAR_FUNCTIONAL |-> "PBE",
     POTCAR |-> [Al |-> "Al", Ce |-> "Ce", Cu |-> "Cu_pv", Mo |-> "Mo_pv",
                 Nb |-> "Nb_pv", O |-> "O", Ti |-> "Ti_pv", V |-> "V_pv"]]

POTCAR_UPDATES ==
    [Cu |-> "Cu", Mo |-> "Mo_sv", Nb |-> "Nb_sv", Ti |-> "Ti_sv", V |-> "V_sv"]

\* a KPOINTS entry that is a plain dict
KDict(items) == [cls |-> "dict", items |-> items]

\* Kpoints(kpts=kpts): a pymatgen Kpoints object; it stores kpts as given
Kpoints(kpts) == [cls |-> "Kpoints", kpts |-> kpts]

(***************************************************************************)
(* The class-level CONFIG of each set, as the class body builds it.        *)
(***************************************************************************)
\* CONFIG['KPOINTS'].update({'grid_density': d}); .pop('reciprocal_density')
ClassKpoints(d) ==
    KDict(Pop(Update(MPRelaxSet.KPOINTS, [grid_density |-> d]),
              "reciprocal_density"))

\* CONFIG['POTCAR_FUNCTIONAL'] = 'PBE'; CONFIG['POTCAR'].update(POTCAR_UPDATES)
ClassConfig(incar, kpoints) ==
    [INCAR |-> incar, KPOINTS |-> kpoints, POTCAR_FUNCTIONAL |-> "PBE",
     POTCAR |-> Update(MPRelaxSet.POTCAR, POTCAR_UPDATES)]

RelaxCONFIG ==
    ClassConfig(
        Update(Pop(MPRelaxSet.INCAR, "ENCUT"),
               [EDIFF_PER_ATOM |-> "1e-7", ISMEAR |-> 1, SIGMA |-> "0.2",
                LREAL |-> "False", PREC |-> "Accurate", ALGO |-> "NORMAL",
                LORBIT |-> 11, LWAVE |-> FALSE, LCHARG |-> FALSE, ISIF |-> 3,
                ICHARG |-> 2, ENCUT |-> 520]),
        ClassKpoints(8000))

PreStaticCONFIG ==
    ClassConfig(
        Update(MPRelaxSet.INCAR,
               [EDIFF_PER_ATOM |-> "1e-5", ENCUT |-> 520, ISMEAR |-> 1,
                NSW |-> 0, IBRION |-> -1, LREAL |-> "False",
                ALGO |-> "NORMAL", LAECHG |-> TRUE, LCHARG |-> FALSE,
                LWAVE |-> FALSE, LORBIT |-> 11, LVHAR |-> TRUE, ICHARG |-> 2,
                NEDOS |-> 5001]),
        ClassKpoints(1000))

ForceConstantsCONFIG ==
    ClassConfig(
        Update(Pop(MPRelaxSet.INCAR, "ENCUT"),
               [EDIFF |-> "5e-7", ISMEAR |-> 1, SIGMA |-> "0.2",
                LREAL |-> "False", LORBIT |-> 11, ISIF |-> 2, IBRION |-> 6,
                POTIM |-> "0.015", NFREE |-> 2, NSW |-> 1,
                PREC |-> "Accurate", ALGO |-> "Fast", SYMPREC |-> "1e-4",
                ICHARG |-> 2]),
        ClassKpoints(8000))

StaticCONFIG ==
    ClassConfig(
        Update(MPRelaxSet.INCAR,
               [EDIFF_PER_ATOM |-> "1e-6", ENCUT |-> 520, ISMEAR |-> -5,
                NSW |-> 0, IBRION |-> -1, LREAL |-> "False",
                ALGO |-> "NORMAL", LAECHG |-> TRUE, LCHARG |-> TRUE,
                LWAVE |-> FALSE, LORBIT |-> 11, LVHAR |-> TRUE, ICHARG |-> 2,
                NEDOS |-> 5001]),
        ClassKpoints(8000))

ForcesCONFIG ==
    ClassConfig(
        Update(Pop(MPRelaxSet.INCAR, "ENCUT"),
               [EDIFF_PER_ATOM |-> "1e-8", ISMEAR |-> 0, SIGMA |-> "0.05",
                NSW |-> 0, IBRION |-> -1, LREAL |-> "False",
                ALGO |-> "NORMAL", LCHARG |-> FALSE, LORBIT |-> 11,
                LVHAR |-> TRUE, LWAVE |-> FALSE, ICHARG |-> 2,
                NEDOS |-> 5001]),
        ClassKpoints(8000))

BornChargeCONFIG ==
    ClassConfig(
        Update(MPRelaxSet.INCAR,
               [LEPSILON |-> TRUE, NCORE |-> 1, LRPA |-> FALSE,
                EDIFF_PER_ATOM |-> "1e-6", ISMEAR |-> 0, NSW |-> 0,
                LORBIT |-> 11, IBRION |-> -1, LREAL |-> "False",
                ALGO |-> "NORMAL", LCHARG |-> FALSE, LWAVE |-> FALSE,
                ICHARG |-> 2, PREC |-> "High"]),
        ClassKpoints(8000))

\* CONFIG['INCAR'] is replaced as a whole: no key of the base template stays
ElasticCONFIG ==
    ClassConfig(
        [EDIFF |-> "1e-6", ISMEAR |-> -5, IBRION |-> 2, LREAL |-> "False",
         ALGO |-> "NORMAL", LAECHG |-> TRUE, LCHARG |-> TRUE, LWAVE |-> FALSE,
         LORBIT |-> 11, LVHAR |-> TRUE, ICHARG |-> 0, NSW |-> 99, ISPIN |-> 2,
         ISIF |-> 2, PREC |-> "High"],
        ClassKpoints(8000))

Classes ==
    {"RelaxSet", "PreStaticSet", "ForceConstantsSet", "StaticSet",
     "ForcesSet", "BornChargeSet", "ElasticSet"}

\* the class attributes CONFIG after the module is imported
ClassCONFIG ==
    [c \in Classes |->
        CASE c = "RelaxSet" -> RelaxCONFIG
          [] c = "PreStaticSet" -> PreStaticCONFIG
          [] c = "ForceConstantsSet" -> ForceConstantsCONFIG
          [] c = "StaticSet" -> StaticCONFIG
          [] c = "ForcesSet" -> ForcesCONFIG
          [] c = "BornChargeSet" -> BornChargeCONFIG
          [] c = "ElasticSet" -> ElasticCONFIG]

(***************************************************************************)
(* Results of a constructor.                                               *)
(***************************************************************************)
\* the constructor raised: no new_config is built or handed on
Raise(exc) == [status |-> exc]

Raised(x) == "status" \in DOMAIN x

\* super().__init__(structure, config, sort_structure=False, **self.kwargs):
\* the bundle handed on to DictSet.  alias tells whether config is the
\* class attribute CONFIG itself and not a copy of it.
HandOn(config, self_kwargs, alias) ==
    [status |-> "ok", config |-> config, kwargs |-> self_kwargs,
     alias |-> alias]

(***************************************************************************)
(* Override groups: ordered dicts as sequences of <<key, value>>.          *)
(***************************************************************************)
\* key in group
HasKey(g, k) == \E i \in 1..Len(g) : g[i][1] = k

\* group.pop(k)
RemoveKey(g, k) == SelectSeq(g, LAMBDA e : e[1] # k)

\* str.lower() on the keys the model uses
Lower(ff) == IF ff = "PREC" THEN "prec" ELSE ff

(***************************************************************************)
(* Steps shared by the constructors (the same statements are repeated in   *)
(* RelaxSet, PreStaticSet, ForceConstantsSet, StaticSet, BornChargeSet and *)
(* ElasticSet).                                                            *)
(***************************************************************************)
\* copy.deepcopy(kwargs.get('user_incar_settings', {}))
GetUis(kwargs) ==
    IF "user_incar_settings" \in DOMAIN kwargs
    THEN kwargs["user_incar_settings"]
    ELSE EmptyDict

\* if 'ISPIN' not in uis: ISPIN = 2 if magnetic_check(structure) else 1
SpinDefault(uis, structure) ==
    IF "ISPIN" \notin DOMAIN uis
    THEN IF magnetic_check(structure)
         THEN Update(uis, [ISPIN |-> 2])
         ELSE Update(uis, [ISPIN |-> 1])
    ELSE uis

\* elif uis['ISPIN']==1: the two statements subscript the bound method pop
\* (uis.pop['MAGMOM']), which raises TypeError when either test on the key
\* 'MAGMON' succeeds
MagmomRaises(uis, incar) ==
    /\ "magmom" \notin DOMAIN uis
    /\ uis["ISPIN"] = 1
    /\ ("MAGMON" \in DOMAIN uis \/ "MAGMON" \in DOMAIN incar)

\* if 'magmom' in uis: drop MAGMOM from new_config['INCAR'];
\* the elif branch, when it does not raise, changes nothing
MagmomStep(uis, incar) ==
    IF "magmom" \in DOMAIN uis THEN Pop(incar, "MAGMOM") ELSE incar

\* mutant: the prec branch does not pop ENCUT
ApplyEntry_KeepsCutoff(config, ff, value) ==
    IF ff = "grid_density"
    THEN IF config.KPOINTS.cls = "dict"
         THEN [config EXCEPT !.KPOINTS = KDict(Update(@.items, ff :> value))]
         ELSE Raise("AttributeError")
    ELSE IF ff = "k_mesh"
    THEN [config EXCEPT !.KPOINTS = Kpoints(value)]
    ELSE [config EXCEPT !.INCAR = Update(@, ff :> value)]

\* mutant: the k_mesh branch updates the KPOINTS dict as the grid_density
\* branch does
ApplyEntry_MeshIntoDict(config, ff, value) ==
    IF Lower(ff) = "prec"
    THEN [config EXCEPT !.INCAR = Update(Pop(@, "ENCUT"), ff :> value)]
    ELSE IF ff \in {"grid_density", "k_mesh"}
    THEN IF config.KPOINTS.cls = "dict"
         THEN [config EXCEPT !.KPOINTS = KDict(Update(@.items, ff :> value))]
         ELSE Raise("AttributeError")
    ELSE [config EXCEPT !.INCAR = Update(@, ff :> value)]

\* one iteration of "for ff in new_vasp_settings" on new_config
ApplyEntry(config, ff, value) ==
    IF Lower(ff) = "prec"
    THEN [config EXCEPT !.INCAR = Update(Pop(@, "ENCUT"), ff :> value)]
    ELSE IF ff = "grid_density"
    THEN IF config.KPOINTS.cls = "dict"
         THEN [config EXCEPT !.KPOINTS =
                            KDict(Update(@.items, ff :> value))]
         \* new_config['KPOINTS'] is a Kpoints object, which has no update
         ELSE Raise("AttributeError")
    ELSE IF ff = "k_mesh"
    THEN [config EXCEPT !.KPOINTS = Kpoints(value)]
    ELSE [config EXCEPT !.INCAR = Update(@, ff :> value)]

RECURSIVE ApplyFrom(_, _, _)
ApplyFrom(config, group, i) ==
    IF i > Len(group) \/ Raised(config)
    THEN config
    ELSE ApplyFrom(ApplyEntry(config, group[i][1], group[i][2]), group, i + 1)

\* for ff in new_vasp_settings: ...
ApplySettings(config, group) == ApplyFrom(config, group, 1)

\* settings = self.a_kwargs.get('settings', {})
\* new_vasp_settings = settings.get(G, None) or uis.get(G, None)
LookupSettings(a_kwargs, uis, G) ==
    LET settings == IF "settings" \in DOMAIN a_kwargs
                    THEN a_kwargs["settings"]
                    ELSE EmptyDict
    IN  Or(Get(settings, G), Get(uis, G))

\* pot = self.kwargs.get('user_potcar_functional', None)
\* if pot: new_config['POTCAR_FUNCTIONAL'] = pot
SetFunctional(config, self_kwargs) ==
    LET pot == Get(self_kwargs, "user_potcar_functional")
    IN  IF \E p \in pot : p # ""
        THEN [config EXCEPT !.POTCAR_FUNCTIONAL = CHOOSE p \in pot : TRUE]
        ELSE config

old_kwargs == {"prev_incar", "prev_kpoints", "grid_density", "lepsilon", "lcalcpol"}

\* for k in old_kwargs: kwargs.pop(k), KeyError ignored
PopAll(kwargs, keys) == [k \in DOMAIN kwargs \ keys |-> kwargs[k]]

\* the value of an optional that is not None
The(o) == CHOOSE x \in o : TRUE

\* if new_vasp_settings: for ff in new_vasp_settings: ...
ApplyIfAny(config, new_vasp_settings) ==
    IF Truthy(new_vasp_settings)
    THEN ApplySettings(config, The(new_vasp_settings))
    ELSE config

(***************************************************************************)
(* RelaxSet.__init__(structure, volume_relax, isif, a_kwargs, **kwargs)    *)
(***************************************************************************)
\* mutant: the conflict is raised only for an isif that disables position
\* relaxation
RelaxConflict_OnlyLargeIsif(volume_relax, isif) ==
    volume_relax /\ \E i \in isif : i > 4

\* if self.volume_relax and self.isif is not None: raise ValueError
RelaxConflict(volume_relax, isif) == volume_relax /\ isif # {}

\* no_position_relax = self.isif is None or self.isif>4
\* if self.volume_relax or no_position_relax:
RelaxDropsEDIFFG(volume_relax, isif) ==
    volume_relax \/ isif = {} \/ \E i \in isif : i > 4

\* self.kwargs['user_incar_settings'].pop('EDIFFG')
CleanKwargs(kwargs) ==
    IF "user_incar_settings" \in DOMAIN kwargs
    THEN [kwargs EXCEPT !["user_incar_settings"] = Pop(@, "EDIFFG")]
    ELSE kwargs

\* for _key in self.a_kwargs['settings']:
\*     self.a_kwargs['settings'][_key].pop('EDIFFG')
\* (every value under 'settings' is a dict here, so that the bare except
\* never cuts the loop short)
CleanAKwargs(a_kwargs) ==
    IF "settings" \in DOMAIN a_kwargs
    THEN [a_kwargs EXCEPT !["settings"] =
             [n \in DOMAIN @ |-> RemoveKey(@[n], "EDIFFG")]]
    ELSE a_kwargs

\* if self.volume_relax: uis.update({'ISIF': 7})
\* if self.isif is not None: uis.update({'ISIF': self.isif})
RelaxIsif(uis, volume_relax, isif) ==
    LET u == IF volume_relax THEN Update(uis, [ISIF |-> 7]) ELSE uis
    IN  IF isif # {} THEN Update(u, [ISIF |-> The(isif)]) ELSE u

\* mutant: only the residual flat overrides are written, without the entry
\* that holds the group
MergeGroupThenUis_Residual(config, new_vasp_settings, uis) ==
    LET grouped == ApplyIfAny(config, new_vasp_settings)
        residual == [k \in DOMAIN uis \ {"Relax_settings", "Static_settings"}
                        |-> uis[k]]
    IN  IF Raised(grouped)
        THEN grouped
        ELSE [grouped EXCEPT !.INCAR = Update(@, residual)]

\* mutant: the flat overrides are written before the group, as in
\* ForceConstantsSet
MergeGroupThenUis_UisFirst(config, new_vasp_settings, uis) ==
    ApplyIfAny([config EXCEPT !.INCAR = Update(@, uis)], new_vasp_settings)

\* the layers of RelaxSet (and, in the same statements, of StaticSet) in the
\* order of the statements: the group on the copy of CONFIG, then
\* new_config['INCAR'].update(uis)
MergeGroupThenUis(config, new_vasp_settings, uis) ==
    LET grouped == ApplyIfAny(config, new_vasp_settings)
    IN  IF Raised(grouped)
        THEN grouped
        ELSE [grouped EXCEPT !.INCAR = Update(@, uis)]

RelaxSet(structure, volume_relax, isif, a_kwargs, kwargs) ==
    IF RelaxConflict(volume_relax, isif)
    THEN Raise("ValueError")
    ELSE
    LET drop == RelaxDropsEDIFFG(volume_relax, isif)
        self_kwargs == IF drop THEN CleanKwargs(kwargs) ELSE kwargs
        self_a_kwargs == IF drop THEN CleanAKwargs(a_kwargs) ELSE a_kwargs
        uis == SpinDefault(RelaxIsif(GetUis(self_kwargs), volume_relax, isif),
                           structure)
        copied == CONFIG["RelaxSet"]
    IN  IF MagmomRaises(uis, copied.INCAR)
        THEN Raise("TypeError")
        ELSE
        LET new_config == [copied EXCEPT !.INCAR = MagmomStep(uis, @)]
            merged == MergeGroupThenUis(new_config,
                          LookupSettings(self_a_kwargs, uis, "Relax_settings"),
                          uis)
        IN  IF Raised(merged)
            THEN merged
            ELSE HandOn(SetFunctional(merged, self_kwargs), self_kwargs, FALSE)

(***************************************************************************)
(* PreStaticSet.__init__(structure, a_kwargs, **kwargs)                    *)
(***************************************************************************)
PreStaticSet(structure, a_kwargs, kwargs) ==
    LET self_kwargs == PopAll(kwargs, old_kwargs)
        uis == SpinDefault(GetUis(self_kwargs), structure)
        copied == CONFIG["PreStaticSet"]
    IN  IF MagmomRaises(uis, copied.INCAR)
        THEN Raise("TypeError")
        ELSE
        LET new_config == [copied EXCEPT !.INCAR = Update(MagmomStep(uis, @), uis)]
        IN  HandOn(SetFunctional(new_config, self_kwargs), self_kwargs, FALSE)

(***************************************************************************)
(* ForceConstantsSet.__init__(structure, a_kwargs, **kwargs)               *)
(***************************************************************************)
\* new_config['INCAR'].update(uis) comes first, then the group; with no
\* group the KPOINTS are Kpoints(kpts=[[3,3,3],])
ForceConstantsMerge(config, new_vasp_settings, uis) ==
    LET updated == [config EXCEPT !.INCAR = Update(@, uis)]
    IN  IF Truthy(new_vasp_settings)
        THEN ApplySettings(updated, The(new_vasp_settings))
        ELSE [updated EXCEPT !.KPOINTS = Kpoints(<< <<3, 3, 3>> >>)]

ForceConstantsSet(structure, a_kwargs, kwargs) ==
    LET self_kwargs == kwargs
        uis == SpinDefault(GetUis(self_kwargs), structure)
        copied == CONFIG["ForceConstantsSet"]
    IN  IF MagmomRaises(uis, copied.INCAR)
        THEN Raise("TypeError")
        ELSE
        LET new_config == [copied EXCEPT !.INCAR = MagmomStep(uis, @)]
            merged == ForceConstantsMerge(new_config,
                          LookupSettings(a_kwargs, uis, "Forceconstant_settings"),
                          uis)
        IN  IF Raised(merged)
            THEN merged
            ELSE HandOn(SetFunctional(merged, self_kwargs), self_kwargs, FALSE)

(***************************************************************************)
(* StaticSet.__init__(structure, isif, a_kwargs, **kwargs)                 *)
(***************************************************************************)
\* uis['ISIF'] = isif
StaticIsif(uis, isif) == Update(uis, [ISIF |-> The(isif)])

StaticSet(structure, isif, a_kwargs, kwargs) ==
    LET self_kwargs == PopAll(kwargs, old_kwargs)
        uis == SpinDefault(StaticIsif(GetUis(self_kwargs), isif), structure)
        copied == CONFIG["StaticSet"]
    IN  IF MagmomRaises(uis, copied.INCAR)
        THEN Raise("TypeError")
        ELSE
        LET new_config == [copied EXCEPT !.INCAR = MagmomStep(uis, @)]
            merged == MergeGroupThenUis(new_config,
                          LookupSettings(a_kwargs, uis, "Static_settings"),
                          uis)
        IN  IF Raised(merged)
            THEN merged
            ELSE HandOn(SetFunctional(merged, self_kwargs), self_kwargs, FALSE)

(***************************************************************************)
(* ForcesSet.__init__(structure, a_kwargs, **kwargs): no merge at all, the *)
(* class attribute CONFIG itself is handed on                              *)
(***************************************************************************)
ForcesSet(structure, a_kwargs, kwargs) ==
    HandOn(CONFIG["ForcesSet"], PopAll(kwargs, old_kwargs), TRUE)

(***************************************************************************)
(* BornChargeSet.__init__(structure, isif, a_kwargs, **kwargs)             *)
(***************************************************************************)
\* if 'LCALCEPS' in uis: drop LEPSILON from new_config['INCAR']
LcalcepsStep(uis, incar) ==
    IF "LCALCEPS" \in DOMAIN uis THEN Pop(incar, "LEPSILON") ELSE incar

\* for key in uis.keys(): the keys of uis that are written to INCAR.  ENCUT
\* is skipped; a key INCAR lacks is written unless it is one of NELM, EDIFF,
\* NEDOS, KPOINT_BSE; a key INCAR holds is overwritten only if it is ISPIN,
\* ISMEAR or SIGMA
FilteredUpdate(incar, uis) ==
    LET taken == {key \in DOMAIN uis :
                    /\ key # "ENCUT"
                    /\ IF key \notin DOMAIN incar
                       THEN key \notin {"NELM", "EDIFF", "NEDOS", "KPOINT_BSE"}
                       ELSE key \in {"ISPIN", "ISMEAR", "SIGMA"}}
    IN  Update(incar, [key \in taken |-> uis[key]])

\* if 'SIGMA' in INCAR and 'ISMEAR' in INCAR: if ISMEAR == -5: pop SIGMA
SigmaStep(incar) ==
    IF /\ "SIGMA" \in DOMAIN incar
       /\ "ISMEAR" \in DOMAIN incar
       /\ incar["ISMEAR"] = -5
    THEN Pop(incar, "SIGMA")
    ELSE incar

BornChargeSet(structure, isif, a_kwargs, kwargs) ==
    LET uis == SpinDefault(GetUis(kwargs), structure)
        self_kwargs == PopAll(kwargs, old_kwargs)
        copied == CONFIG["BornChargeSet"]
        lcalceps == LcalcepsStep(GetUis(kwargs), copied.INCAR)
    IN  IF MagmomRaises(uis, lcalceps)
        THEN Raise("TypeError")
        ELSE
        LET new_config ==
                [copied EXCEPT !.INCAR =
                    SigmaStep(FilteredUpdate(MagmomStep(uis, lcalceps), uis))]
            merged == ApplyIfAny(new_config,
                          LookupSettings(a_kwargs, uis, "Born_settings"))
        IN  IF Raised(merged)
            THEN merged
            ELSE HandOn(SetFunctional(merged, self_kwargs), self_kwargs, FALSE)

(***************************************************************************)
(* ElasticSet.__init__(structure, a_kwargs, **kwargs)                      *)
(***************************************************************************)
\* if metal_check(structure): grid_density = 15625, else: grid_density = 8000
\* grid_density = user_kpoints_settings.get('grid_density') or grid_density
\* The local grid_density is read by no later statement of __init__: it is
\* written neither to new_config nor to self.kwargs.
ElasticGridDensity(structure, kwargs) ==
    LET grid_density == IF metal_check(structure) THEN 15625 ELSE 8000
        user_kpoints_settings ==
            IF "user_kpoints_settings" \in DOMAIN kwargs
            THEN kwargs["user_kpoints_settings"]
            ELSE EmptyDict
        given == Get(user_kpoints_settings, "grid_density")
    IN  IF \E d \in given : d # 0 THEN The(given) ELSE grid_density

\* if 'grid_density' not in new_vasp_settings: KPOINTS = Kpoints([[31,31,31],])
\* (the caller has checked that new_vasp_settings is not None)
ElasticKpoints(config, new_vasp_settings) ==
    IF ~HasKey(The(new_vasp_settings), "grid_density")
    THEN [config EXCEPT !.KPOINTS = Kpoints(<< <<31, 31, 31>> >>)]
    ELSE config

ElasticSet(structure, a_kwargs, kwargs) ==
    LET uis == SpinDefault(GetUis(kwargs), structure)
        self_kwargs ==
            PopAll(kwargs, old_kwargs \cup {"user_incar_settings",
                                            "user_kpoints_settings"})
        copied == CONFIG["ElasticSet"]
    IN  IF MagmomRaises(uis, copied.INCAR)
        THEN Raise("TypeError")
        ELSE
        LET new_config ==
                [copied EXCEPT !.INCAR =
                    SigmaStep(FilteredUpdate(MagmomStep(uis, @), uis))]
            new_vasp_settings == LookupSettings(a_kwargs, uis, "Elastic_settings")
        IN  \* 'grid_density' not in None: TypeError
            IF new_vasp_settings = {}
            THEN Raise("TypeError")
            ELSE
            LET merged == ApplyIfAny(ElasticKpoints(new_config, new_vasp_settings),
                                     new_vasp_settings)
            IN  IF Raised(merged)
                THEN merged
                ELSE HandOn(SetFunctional(merged, self_kwargs), self_kwargs, FALSE)

\* the constructor of class cls on the arguments of a call
Construct(cls, c) ==
    CASE cls = "RelaxSet" ->
            RelaxSet(c.structure, c.volume_relax, c.isif, c.a_kwargs, c.kwargs)
      [] cls = "PreStaticSet" -> PreStaticSet(c.structure, c.a_kwargs, c.kwargs)
      [] cls = "ForceConstantsSet" ->
            ForceConstantsSet(c.structure, c.a_kwargs, c.kwargs)
      [] cls = "StaticSet" -> StaticSet(c.structure, c.isif, c.a_kwargs, c.kwargs)
      [] cls = "ForcesSet" -> ForcesSet(c.structure, c.a_kwargs, c.kwargs)
      [] cls = "BornChargeSet" ->
            BornChargeSet(c.structure, c.isif, c.a_kwargs, c.kwargs)
      [] cls = "ElasticSet" -> ElasticSet(c.structure, c.a_kwargs, c.kwargs)

(***************************************************************************)
(* The calls the model makes: the arguments of one constructor call.       *)
(***************************************************************************)
\* O, Al, Ce: a non-metal, a non-magnetic metal, a lanthanide
Elements == {8, 13, 58}

\* structure.species, as atomic numbers
Structures == UNION {[1..n -> Elements] : n \in 0..MaxSites}

\* the override group a class recognizes; PreStaticSet and ForcesSet read none
GroupName ==
    [c \in Classes |->
        CASE c = "RelaxSet" -> {"Relax_settings"}
          [] c = "ForceConstantsSet" -> {"Forceconstant_settings"}
          [] c = "StaticSet" -> {"Static_settings"}
          [] c = "BornChargeSet" -> {"Born_settings"}
          [] c = "ElasticSet" -> {"Elastic_settings"}
          [] OTHER -> {}]

GroupKeys == {"PREC", "prec", "grid_density", "k_mesh", "ENCUT", "EDIFFG"}

GroupValues(k) ==
    CASE k = "PREC" -> {"High"}
      [] k = "prec" -> {"Normal"}
      [] k = "grid_density" -> {4000}
      [] k = "k_mesh" -> {<< <<4, 4, 4>> >>}
      [] k = "ENCUT" -> {300}
      [] k = "EDIFFG" -> {"-0.02"}

RECURSIVE GroupsOfLen(_)
GroupsOfLen(n) ==
    IF n = 0
    THEN {<<>>}
    ELSE UNION {UNION {{Append(g, <<k, v>>) : v \in GroupValues(k)} :
                       k \in {x \in GroupKeys : ~HasKey(g, x)}} :
                g \in GroupsOfLen(n - 1)}

\* the groups of at most n entries, keys distinct, in every insertion order
Groups(n) == UNION {GroupsOfLen(m) : m \in 0..n}

FlatKeys ==
    {"ISPIN", "ENCUT", "EDIFFG", "MAGMOM", "magmom", "MAGMON", "ISIF",
     "ISMEAR", "SIGMA", "NELM", "LCALCEPS"}

\* the values a key of user_incar_settings takes; a group name holds a group
UisValues(k) ==
    CASE k = "ISPIN" -> {1, 2}
      [] k = "ENCUT" -> {400}
      [] k = "EDIFFG" -> {"-0.01"}
      [] k \in {"MAGMOM", "magmom", "MAGMON"} -> {"user"}
      [] k = "ISIF" -> {4}
      [] k = "ISMEAR" -> {-5, 0}
      [] k = "SIGMA" -> {"0.1"}
      [] k = "NELM" -> {60}
      [] k = "LCALCEPS" -> {TRUE}
      [] OTHER -> Groups(MaxUis)

RECURSIVE DictsOver(_)
DictsOver(D) ==
    IF D = {}
    THEN {EmptyDict}
    ELSE LET k == CHOOSE x \in D : TRUE
         IN  UNION {{(k :> v) @@ d : v \in UisValues(k)} : d \in DictsOver(D \ {k})}

\* user_incar_settings of at most MaxUis keys
UisOf(cls) ==
    UNION {DictsOver(D) :
           D \in {X \in SUBSET (FlatKeys \cup GroupName[cls]) :
                    Cardinality(X) <= MaxUis}}

KwargsOf(cls) ==
    {u @@ p @@ k :
        u \in {EmptyDict} \cup {[user_incar_settings |-> d] : d \in UisOf(cls)},
        p \in {EmptyDict, [user_potcar_functional |-> "LDA"]},
        k \in IF cls = "ElasticSet"
              THEN {EmptyDict, [user_kpoints_settings |-> [grid_density |-> 1000]]}
              ELSE {EmptyDict}}

AKwargsOf(cls) ==
    {EmptyDict} \cup
    IF GroupName[cls] = {}
    THEN {}
    ELSE {[settings |-> EmptyDict]} \cup
         {[settings |-> (The(GroupName[cls]) :> g)] : g \in Groups(MaxGroup)}

VolumeRelaxOf(cls) == IF cls = "RelaxSet" THEN BOOLEAN ELSE {FALSE}

IsifOf(cls) ==
    CASE cls = "RelaxSet" -> {{}, {3}, {5}}
      [] cls = "StaticSet" -> {{2}, {3}}
      [] cls = "BornChargeSet" -> {{2}}
      [] OTHER -> {{}}

NotRun == [status |-> "none"]

(***************************************************************************)
(* The state machine: one constructor call on arguments drawn in Init,     *)
(* then the same class constructed again on the first bundle's INCAR.      *)
(***************************************************************************)
Init ==
    /\ CONFIG = ClassCONFIG
    /\ \E cls \in Classes :
       \E structure \in Structures, volume_relax \in VolumeRelaxOf(cls),
          isif \in IsifOf(cls), a_kwargs \in AKwargsOf(cls),
          kwargs \in KwargsOf(cls) :
            call = [cls |-> cls, structure |-> structure,
                    volume_relax |-> volume_relax, isif |-> isif,
                    a_kwargs |-> a_kwargs, kwargs |-> kwargs]
    /\ pc = "start"
    /\ result = NotRun
    /\ again = NotRun

New(cls) ==
    /\ pc = "start"
    /\ call.cls = cls
    /\ result' = Construct(cls, call)
    /\ pc' = "resolved"
    /\ UNCHANGED <<CONFIG, call, again>>

NewRelaxSet == New("RelaxSet")

NewPreStaticSet == New("PreStaticSet")

NewForceConstantsSet == New("ForceConstantsSet")

NewStaticSet == New("StaticSet")

NewForcesSet == New("ForcesSet")

NewBornChargeSet == New("BornChargeSet")

NewElasticSet == New("ElasticSet")

\* the arguments of the second call: the first call's, with
\* user_incar_settings set to the first bundle's INCAR and a_kwargs empty
SecondCall ==
    [call EXCEPT !.a_kwargs = EmptyDict,
                 !.kwargs = [user_incar_settings |-> result.config.INCAR] @@ @]

Resolve2 ==
    /\ pc = "resolved"
    /\ result.status = "ok"
    /\ again' = Construct(call.cls, SecondCall)
    /\ pc' = "reresolved"
    /\ UNCHANGED <<CONFIG, call, result>>

Next ==
    \/ NewRelaxSet
    \/ NewPreStaticSet
    \/ NewForceConstantsSet
    \/ NewStaticSet
    \/ NewForcesSet
    \/ NewBornChargeSet
    \/ NewElasticSet
    \/ Resolve2

Spec == Init /\ [][Next]_vars

(***************************************************************************)
(* The classifier on its own: one call of metal_check or magnetic_check on *)
(* a structure drawn in InitClassifier.                                    *)
(***************************************************************************)
\* the ends of the ranges of metal_elements and magnetic_elements and the
\* atomic numbers next to them
RangeEnds ==
    {2, 3, 4, 5, 10, 11, 13, 14, 18, 19, 22, 23, 28, 29, 31, 32, 36, 37,
     43, 44, 46, 47, 50, 51, 54, 55, 57, 58, 71, 72, 85, 86, 87, 90, 91, 118}

\* structure.species: every single element, and the structures of at most
\* MaxSpecies sites over RangeEnds
ClassifierStructures ==
    {<<z>> : z \in 1..118} \cup
    UNION {[1..n -> RangeEnds] : n \in 0..MaxSpecies}

InitClassifier ==
    /\ CONFIG = ClassCONFIG
    /\ \E f \in {"metal_check", "magnetic_check"},
          structure \in ClassifierStructures :
            call = [cls |-> f, structure |-> structure]
    /\ pc = "start"
    /\ result = NotRun
    /\ again = NotRun

MetalCheck ==
    /\ pc = "start"
    /\ call.cls = "metal_check"
    /\ result' = [status |-> "returned", value |-> metal_check(call.structure)]
    /\ pc' = "classified"
    /\ UNCHANGED <<CONFIG, call, again>>

MagneticCheck ==
    /\ pc = "start"
    /\ call.cls = "magnetic_check"
    /\ result' = [status |-> "returned", value |-> magnetic_check(call.structure)]
    /\ pc' = "classified"
    /\ UNCHANGED <<CONFIG, call, again>>

NextClassifier ==
    \/ MetalCheck
    \/ MagneticCheck

SpecClassifier == InitClassifier /\ [][NextClassifier]_vars

(***************************************************************************)
(* What the claims speak of.                                               *)
(***************************************************************************)
\* the first call has returned or raised
Done == pc # "start"

\* the first call handed a bundle on
Resolved == Done /\ result.status = "ok"

\* the final parameters of the first bundle
INCAR == result.config.INCAR

\* the sampling field of the first bundle
KPOINTS == result.config.KPOINTS

\* the flat user overrides as the caller passed them
UserIncar == GetUis(call.kwargs)

Recognizing == {c \in Classes : GroupName[c] # {}}

\* the group under a_kwargs['settings'][G], as the caller passed it
NestedGroup ==
    IF call.cls \in Recognizing /\ "settings" \in DOMAIN call.a_kwargs
    THEN Get(call.a_kwargs["settings"], The(GroupName[call.cls]))
    ELSE {}

\* the group under user_incar_settings[G], as the caller passed it
TopGroup ==
    IF call.cls \in Recognizing
    THEN Get(UserIncar, The(GroupName[call.cls]))
    ELSE {}

\* the caller's override group: the nested one if it has entries, else the
\* top-level one; None if there is neither
TheGroup == IF Truthy(NestedGroup) THEN NestedGroup ELSE TopGroup

\* the caller's group has an entry under key k
GroupHas(k) == \E g \in TheGroup : HasKey(g, k)

\* the position of key k in the caller's group
IndexOf(k) ==
    LET g == The(TheGroup) IN CHOOSE i \in 1..Len(g) : g[i][1] = k

\* the value of key k in the caller's group
GroupValue(k) == The(TheGroup)[IndexOf(k)][2]

\* the keys that are 'prec' in some letter case
PrecKeys == {"PREC", "prec"}

\* the caller's group has a precision-level entry
GroupHasPrec == \E k \in PrecKeys : GroupHas(k)

\* the position of the last precision-level entry of the caller's group
LastPrec ==
    LET g == The(TheGroup)
    IN  CHOOSE i \in 1..Len(g) :
            /\ g[i][1] \in PrecKeys
            /\ \A j \in (i + 1)..Len(g) : g[j][1] \notin PrecKeys

\* C1: RelaxSet called with volume_relax true and an isif value raises the
\* conflict error (ValueError) and hands no bundle on, whatever the structure
\* and the other arguments are.
C1_ConflictRaises ==
    (Done /\ call.cls = "RelaxSet" /\ call.volume_relax /\ call.isif # {})
        => (result.status = "ValueError" /\ "config" \notin DOMAIN result)

C1_Witness ==
    /\ Done
    /\ call.cls = "RelaxSet"
    /\ call.volume_relax
    /\ call.isif = {3}
    /\ call.structure = <<13, 58>>
    /\ "EDIFFG" \in DOMAIN UserIncar
    /\ result = [status |-> "ValueError"]

\* the classes whose constructor merges layers (ForcesSet merges nothing)
Merging == Classes \ {"ForcesSet"}

\* ENCUT as an optional value of the final parameters
FinalENCUT == Get(INCAR, "ENCUT")

DensityGiven ==
    \/ /\ "user_kpoints_settings" \in DOMAIN call.kwargs
       /\ "grid_density" \in DOMAIN call.kwargs["user_kpoints_settings"]
    \/ GroupHas("grid_density")

\* C4 as claimed: ElasticSet on a structure (of at least one site) whose
\* elements are all metallic, with no sampling density passed, yields the
\* sampling density 15625.
C4_MetallicDensity ==
    (/\ Resolved
     /\ call.cls = "ElasticSet"
     /\ call.structure # <<>>
     /\ \A i \in 1..Len(call.structure) : call.structure[i] \in metal_elements
     /\ ~DensityGiven)
        => /\ KPOINTS.cls = "dict"
           /\ "grid_density" \in DOMAIN KPOINTS.items
           /\ KPOINTS.items["grid_density"] = 15625

\* C5 as claimed: StaticSet on a structure with no magnetic element, the user
\* overrides not setting ISPIN, yields ISPIN = 1 and no MAGMOM key.
C5_StaticUnpolarized ==
    (/\ Resolved
     /\ call.cls = "StaticSet"
     /\ \A i \in 1..Len(call.structure) : call.structure[i] \notin magnetic_elements
     /\ "ISPIN" \notin DOMAIN UserIncar)
        => /\ INCAR["ISPIN"] = 1
           /\ "MAGMOM" \notin DOMAIN INCAR

\* C6: RelaxSet on a structure with a lanthanide (Z 58-71) yields ISPIN = 2
\* unless the flat user overrides hold ISPIN, and then the user's value.
C6_LanthanideSpin ==
    (/\ Resolved
     /\ call.cls = "RelaxSet"
     /\ \E i \in 1..Len(call.structure) : call.structure[i] \in 58..71)
        => INCAR["ISPIN"] =
              IF "ISPIN" \in DOMAIN UserIncar THEN UserIncar["ISPIN"] ELSE 2

\* oxygen and cerium, no ISPIN passed, a group passed
C6_Witness ==
    /\ Resolved
    /\ call.cls = "RelaxSet"
    /\ call.structure = <<8, 58>>
    /\ "ISPIN" \notin DOMAIN UserIncar
    /\ Truthy(NestedGroup)
    /\ INCAR["ISPIN"] = 2

Conflict == call.cls = "RelaxSet" /\ call.volume_relax /\ call.isif # {}

\* the caller passed no group, or groups without entries
NoGroup == ~Truthy(NestedGroup) /\ ~Truthy(TopGroup)

\* C8 as claimed, for the calls with an absent or empty group: such a call
\* raises if and only if it is the RelaxSet conflict; every other one hands a
\* bundle on.
C8_OnlyConflictFails ==
    (Done /\ NoGroup) => (result.status # "ok" <=> Conflict)

\* C9 as claimed: in every merging class every key of the flat user
\* overrides (the group name aside) is in the final parameters with the
\* user's value.
C9_Original ==
    (Resolved /\ call.cls \in Merging)
        => \A K \in DOMAIN UserIncar \ GroupName[call.cls] :
              K \in DOMAIN INCAR /\ INCAR[K] = UserIncar[K]

\* the keys of the flat user overrides that the constructor itself rewrites
\* before the merge: ISIF, set from the arguments volume_relax and isif
\* (RelaxSet) or isif (StaticSet), and EDIFFG, dropped by RelaxSet when
\* volume_relax is true or isif is None or above 4
Rewritten ==
    (IF \/ call.cls = "StaticSet"
        \/ call.cls = "RelaxSet" /\ (call.volume_relax \/ call.isif # {})
     THEN {"ISIF"}
     ELSE {})
    \cup
    (IF /\ call.cls = "RelaxSet"
        /\ (call.volume_relax \/ call.isif = {} \/ \E i \in call.isif : i > 4)
     THEN {"EDIFFG"}
     ELSE {})

\* C9 amended: in RelaxSet, PreStaticSet and StaticSet the flat user
\* overrides are written last, so every key of them, the group name and the
\* keys the constructor rewrites aside, is in the final parameters with the
\* user's value, whatever the template, the baseline and the group set.
C9_UserOverridesLast ==
    (Resolved /\ call.cls \in {"RelaxSet", "PreStaticSet", "StaticSet"})
        => \A K \in DOMAIN UserIncar \ (GroupName[call.cls] \cup Rewritten) :
              K \in DOMAIN INCAR /\ INCAR[K] = UserIncar[K]

\* the user's ENCUT wins over the baseline's 520 and the group's 300
C9_Witness ==
    /\ Resolved
    /\ call.cls = "StaticSet"
    /\ UserIncar = [ENCUT |-> 400]
    /\ NestedGroup = {<< <<"ENCUT", 300>> >>}
    /\ CONFIG["StaticSet"].INCAR["ENCUT"] = 520
    /\ INCAR["ENCUT"] = 400

\* C10 as claimed: RelaxSet with volume_relax true or isif above 4 hands on
\* final parameters without EDIFFG, wherever the caller passed one.
C10_NoEDIFFG ==
    (/\ Resolved
     /\ call.cls = "RelaxSet"
     /\ (call.volume_relax \/ \E i \in call.isif : i > 4))
        => "EDIFFG" \notin DOMAIN INCAR

(***************************************************************************)
(* C11: the class templates after a resolution.                            *)
(***************************************************************************)
\* the bundle of a returned call is built on a copy of the class template
Private(r) == r.status = "ok" => ~r.alias

\* C11: after every resolution the CONFIG of every class equals its value
\* after import, and the config a constructor hands on is a private deep
\* copy of the template, never the class attribute CONFIG itself.
C11_TemplatesPrivate ==
    Done => (CONFIG = ClassCONFIG /\ Private(result) /\ Private(again))

\* C12: the final parameters of a resolved bundle never hold both the
\* cutoff-energy key ENCUT and the precision-level key PREC.
C12_CutoffOrPrecision ==
    Resolved => ~({"ENCUT", "PREC"} \subseteq DOMAIN INCAR)

(***************************************************************************)
(* C13: the classifier.                                                    *)
(***************************************************************************)
\* atomic number z lies in 3-4, 11-13, 19-31, 37-50, 55-85 or 87-118
InMetalRanges(z) ==
    \/ 3 <= z /\ z <= 4
    \/ 11 <= z /\ z <= 13
    \/ 19 <= z /\ z <= 31
    \/ 37 <= z /\ z <= 50
    \/ 55 <= z /\ z <= 85
    \/ 87 <= z /\ z <= 118

TopGroupEmptied ==
    [call EXCEPT !.kwargs["user_incar_settings"] =
        Update(@, The(GroupName[call.cls]) :> <<>>)]

\* what a constructor did, up to the value INCAR keeps under the name of
\* the group: the exception, or the config handed on without that key
UpToGroupKey(r) ==
    IF r.status = "ok"
    THEN [status |-> "ok",
          config |-> [r.config EXCEPT
                         !.INCAR = Pop(@, The(GroupName[call.cls]))]]
    ELSE r

\* C14: when a_kwargs['settings'] holds the group G, the entries of a group
\* under user_incar_settings[G] are not applied as group entries: the call
\* does what it does with that top-level group emptied.
C14_NestedFirst ==
    (/\ Done
     /\ call.cls \in Recognizing
     /\ NestedGroup # {}
     /\ TopGroup # {})
        => UpToGroupKey(result) =
              UpToGroupKey(Construct(call.cls, TopGroupEmptied))

\* C15: RelaxSet with volume_relax false and isif absent or at most 4 keeps
\* the EDIFFG of the flat user overrides: the final parameters hold EDIFFG
\* with the user's value.
C15_KeepsEDIFFG ==
    (/\ Resolved
     /\ call.cls = "RelaxSet"
     /\ ~call.volume_relax
     /\ \A i \in call.isif : i <= 4
     /\ "EDIFFG" \in DOMAIN UserIncar)
        => Get(INCAR, "EDIFFG") = {UserIncar["EDIFFG"]}

\* the names of the override groups of all classes
GroupNames == UNION {GroupName[c] : c \in Classes}

\* C16: the final parameters of a resolved bundle hold no key that is the
\* name of an override group, also when the group came as a top-level key
\* of the flat user overrides.
C16_NoGroupKey ==
    Resolved => DOMAIN INCAR \cap GroupNames = {}

====
